---- MODULE Spec2Model ----
(***************************************************************************)
(* A model of advent-ocr: ocr() and its helpers (src/src/lib.rs) and the   *)
(* five Scannable::normalize implementations (src/src/scannable.rs).       *)
(*                                                                         *)
(* A text (&str / String) is a sequence of one-character strings.  Every   *)
(* character of the model is ASCII, so str::len() is Len.                  *)
(* A u64 identifier is its binary numeral: a sequence of bits, most        *)
(* significant first, without leading zeros (<<>> is 0), kept to the low   *)
(* IdBits bits as `<<` on a u64 keeps them.  Two identifiers are equal as  *)
(* u64 exactly when these sequences are equal.                             *)
(* An operation that can panic returns a record whose tag is "Panic".      *)
(***************************************************************************)
EXTENDS Integers, Sequences, FiniteSets, TLC

\* ---------------------------------------------------------------- bounds
MaxWidth == 6
MaxRawLen == 3
MaxFlatLen == 5
MaxFlatWidth == 2
MaxCalls == 2

\* the width of the identifier type, u64
IdBits == 64

\* ------------------------------------------------------------ characters
NL == "\n"
Fill == "#"
Sentinel == "?"

\* char::is_whitespace, on the characters of the model
IsWhitespace(c) == c \in {" ", NL, "\t", "\r"}

Min(a, b) == IF a < b THEN a ELSE b

\* s[from..to], 1-based and inclusive; empty when from > to
Slice(s, from, to) == SubSeq(s, from, to)

\* str::trim: the text without its leading and trailing whitespace
trim(s) ==
  IF \A i \in 1..Len(s) : IsWhitespace(s[i]) THEN <<>>
  ELSE Slice(s,
         CHOOSE i \in 1..Len(s) :
           ~IsWhitespace(s[i]) /\ \A j \in 1..(i - 1) : IsWhitespace(s[j]),
         CHOOSE i \in 1..Len(s) :
           ~IsWhitespace(s[i]) /\ \A j \in (i + 1)..Len(s) : IsWhitespace(s[j]))

\* str::find('\n'): the 0-based index of the first line break, -1 for None
find(s, c) ==
  IF \A i \in 1..Len(s) : s[i] # c THEN -1
  ELSE (CHOOSE i \in 1..Len(s) : s[i] = c /\ \A j \in 1..(i - 1) : s[j] # c) - 1

\* ----------------------------------------------------------- normalize
RECURSIVE Flatten(_)
\* the rows one after the other, each followed by one line break
Flatten(rows) ==
  IF rows = <<>> THEN <<>> ELSE Head(rows) \o <<NL>> \o Flatten(Tail(rows))

BoolChar(b) == IF b THEN Fill ELSE "."

\* impl Scannable for &str
normalize_str(text) == [tag |-> "Ok", text |-> text]

\* impl Scannable for (&Vec<char>, usize): height = len / width panics for
\* width 0; the rows are the complete rows, a trailing partial row is dropped
normalize_flat_char(chars, width) ==
  IF width = 0 THEN [tag |-> "Panic", text |-> <<>>]
  ELSE LET height == Len(chars) \div width
       IN [tag |-> "Ok",
           text |-> Flatten([y \in 1..height |->
                      [x \in 1..width |-> chars[x + (y - 1) * width]]])]

\* impl Scannable for (&Vec<bool>, usize)
normalize_flat_bool(bools, width) ==
  IF width = 0 THEN [tag |-> "Panic", text |-> <<>>]
  ELSE LET height == Len(bools) \div width
       IN [tag |-> "Ok",
           text |-> Flatten([y \in 1..height |->
                      [x \in 1..width |-> BoolChar(bools[x + (y - 1) * width])]])]

\* impl Scannable for &Vec<Vec<bool>>
normalize_rows_bool(rows) ==
  [tag |-> "Ok",
   text |-> Flatten([y \in 1..Len(rows) |->
              [x \in 1..Len(rows[y]) |-> BoolChar(rows[y][x])]])]

\* impl Scannable for &Vec<Vec<char>>
normalize_rows_char(rows) == [tag |-> "Ok", text |-> Flatten(rows)]

\* the trait dispatch: image is one of the five Scannable types
normalize(image) ==
  CASE image.form = "str" -> normalize_str(image.data)
    [] image.form = "flat_bool" -> normalize_flat_bool(image.data, image.width)
    [] image.form = "flat_char" -> normalize_flat_char(image.data, image.width)
    [] image.form = "rows_bool" -> normalize_rows_bool(image.data)
    [] image.form = "rows_char" -> normalize_rows_char(image.data)

\* ------------------------------------------------------------ map_to_id
\* the numeral without its leading zeros
StripZeros(bits) ==
  IF \A i \in 1..Len(bits) : bits[i] = 0 THEN <<>>
  ELSE SubSeq(bits,
              CHOOSE i \in 1..Len(bits) :
                bits[i] = 1 /\ \A j \in 1..(i - 1) : bits[j] = 0,
              Len(bits))

\* the low IdBits bits of a numeral: what a u64 keeps
LowBits(bits) ==
  IF Len(bits) > IdBits
  THEN StripZeros(SubSeq(bits, Len(bits) - IdBits + 1, Len(bits)))
  ELSE StripZeros(bits)

\* col.iter().fold(id, |acc, &b| (acc << 1) + if b { 1 } else { 0 }): each
\* step shifts the accumulator by one bit and sets the new low bit to the
\* cell, so the fold appends the cells of the column to the numeral
FoldCol(id, col) ==
  LowBits(id \o [y \in 1..Len(col) |-> IF col[y] THEN 1 ELSE 0])

\* the column x (0-based) of the image: image[x + y * (width + 1)] == b'#'
Column(image, width, height, x) ==
  [y \in 1..height |-> image[x + (y - 1) * (width + 1) + 1] = Fill]

\* col.iter().all(|&b| !b)
IsBlank(col) == \A y \in 1..Len(col) : ~col[y]

\* letter_width == 5 at height 6: the fixed-width closing rule
ClosesLetter(height, letter_width) == letter_width = 5 /\ height = 6

\* the locals id, letter_width and ids before the loop
LoopStart == [id |-> <<>>, letter_width |-> 0, ids |-> <<>>]

\* the body of the loop for one column, from the locals s: a non-blank
\* column that closes a letter of five columns, a blank column, or a
\* non-blank column folded into the open identifier
LoopBody(s, col, height) ==
  IF ClosesLetter(height, s.letter_width) /\ ~IsBlank(col)
  THEN [id |-> FoldCol(<<>>, col), letter_width |-> 1,
        ids |-> Append(s.ids, s.id)]
  ELSE IF IsBlank(col)
       THEN [id |-> <<>>, letter_width |-> 0,
             ids |-> IF s.id # <<>> THEN Append(s.ids, s.id) ELSE s.ids]
       ELSE [id |-> FoldCol(s.id, col),
             letter_width |-> s.letter_width + 1, ids |-> s.ids]

\* for x in 0..width { .. }, then the push of the identifier left open:
\* after[x] is the locals after the columns 0..x-1
Scan(image, width, height) ==
  LET after[x \in 0..width] ==
        IF x = 0 THEN LoopStart
        ELSE LoopBody(after[x - 1], Column(image, width, height, x - 1), height)
      end == after[width]
  IN IF end.id # <<>> THEN Append(end.ids, end.id) ELSE end.ids

\* fn map_to_id: None without a line break; a panic on a division by zero
\* or on an index beyond the image
map_to_id(image) ==
  LET width == find(image, NL)
  IN IF width = -1 THEN [tag |-> "None", ids |-> <<>>]
     ELSE IF width = 0 THEN [tag |-> "Panic", ids |-> <<>>]
     ELSE LET height == Len(image) \div width
          IN IF \E x \in 0..(width - 1) : \E y \in 0..(height - 1) :
                   x + y * (width + 1) >= Len(image)
             THEN [tag |-> "Panic", ids |-> <<>>]
             ELSE [tag |-> "Some",
                   ids |-> Scan(image, width, height)]

\* ------------------------------------------------------- the catalogue
\* HashMap::insert: a later insert of an equal key replaces the value
Insert(m, id, c) == [k \in DOMAIN m \cup {id} |-> IF k = id THEN c ELSE m[k]]

RECURSIVE InsertZip(_, _, _, _)
\* ids.iter().zip(letters.chars()).for_each(insert): the pairs i.. of the
\* zip, which ends with the shorter of the two
InsertZip(m, ids, letters, i) ==
  IF i > Min(Len(ids), Len(letters)) THEN m
  ELSE InsertZip(Insert(m, ids[i], letters[i]), ids, letters, i + 1)

\* a populate_letter_map that pairs each identifier with the next letter
populate_letter_map_shifted(m, letter_forms, letters) ==
  LET r == map_to_id(trim(letter_forms))
  IN IF r.tag # "Some" THEN [tag |-> "Panic", map |-> m]
     ELSE [tag |-> "Ok", map |-> InsertZip(m, r.ids, Tail(letters), 1)]

\* fn populate_letter_map: map_to_id(letter_forms.trim()).unwrap(), then
\* the zip
populate_letter_map(m, letter_forms, letters) ==
  LET r == map_to_id(trim(letter_forms))
  IN IF r.tag # "Some" THEN [tag |-> "Panic", map |-> m]
     ELSE [tag |-> "Ok", map |-> InsertZip(m, r.ids, letters, 1)]

\* str::split_once("\n\n"): the text before and after the first blank line
IsBreak(text, i) == text[i] = NL /\ text[i + 1] = NL
split_once(text) ==
  IF \A i \in 1..(Len(text) - 1) : ~IsBreak(text, i)
  THEN [tag |-> "None", before |-> <<>>, after |-> <<>>]
  ELSE LET i == CHOOSE i \in 1..(Len(text) - 1) :
                  IsBreak(text, i) /\ \A j \in 1..(i - 1) : ~IsBreak(text, j)
       IN [tag |-> "Some", before |-> Slice(text, 1, i - 1),
           after |-> Slice(text, i + 2, Len(text))]

EmptyMap == [k \in {} |-> Sentinel]

\* fn get_letter_map: a file is [ok, text]; ok = FALSE is a file
\* fs::read_to_string cannot read.  Every unwrap() that fails is a panic.
get_letter_map(file6, file10) ==
  IF ~file6.ok THEN [tag |-> "Panic", map |-> EmptyMap]
  ELSE LET s6 == split_once(file6.text)
  IN IF s6.tag = "None" THEN [tag |-> "Panic", map |-> EmptyMap]
  ELSE IF ~file10.ok THEN [tag |-> "Panic", map |-> EmptyMap]
  ELSE LET s10 == split_once(file10.text)
  IN IF s10.tag = "None" THEN [tag |-> "Panic", map |-> EmptyMap]
  ELSE LET p6 == populate_letter_map(EmptyMap, s6.after, s6.before)
  IN IF p6.tag = "Panic" THEN p6
  ELSE populate_letter_map(p6.map, s10.after, s10.before)

\* ------------------------------------------------------------------ ocr
\* a decoder that drops the identifiers the catalogue does not hold
DecodeKnown(ids, m) ==
  LET known == SelectSeq(ids, LAMBDA id : id \in DOMAIN m)
  IN [i \in 1..Len(known) |-> m[known[i]]]

\* ids.iter().map(|id| letter_map.get(id).unwrap_or(&'?')).collect()
Decode(ids, m) ==
  [i \in 1..Len(ids) |-> IF ids[i] \in DOMAIN m THEN m[ids[i]] ELSE Sentinel]

NoIds == [tag |-> "Unreached", ids |-> <<>>]
NoMap == [tag |-> "Unreached", map |-> EmptyMap]
Outcome(tag, s, r, lm, n) ==
  [result |-> [tag |-> tag, s |-> s], ids |-> r, letter_map |-> lm, loads |-> n]

\* pub fn ocr: the result, with the values of its locals ids and
\* letter_map and the number of times it built the catalogue
ocr(image, file6, file10) ==
  LET n == normalize(image)
  IN IF n.tag = "Panic" THEN Outcome("Panic", <<>>, NoIds, NoMap, 0)
     ELSE LET r == map_to_id(trim(n.text))
          IN IF r.tag # "Some" THEN Outcome(r.tag, <<>>, r, NoMap, 0)
             ELSE LET lm == get_letter_map(file6, file10)
                  IN IF lm.tag = "Panic" THEN Outcome("Panic", <<>>, r, lm, 1)
                     ELSE Outcome("Some", Decode(r.ids, lm.map), r, lm, 1)

\* --------------------------------------------------------------- inputs
\* A logical grid is its rows of cells (TRUE = on), the &Vec<Vec<bool>> of
\* the tests.  The grids of the model are built of two kinds of column.
Blank(h) == [y \in 1..h |-> FALSE]
Full(h) == [y \in 1..h |-> TRUE]
ColPatterns(h) == {Blank(h), Full(h)}

GridFromCols(cols, h) == [y \in 1..h |-> [x \in 1..Len(cols) |-> cols[x][y]]]

Heights == {1, 2, 6}
Grids ==
  UNION {{GridFromCols(cols, h) : cols \in [1..w -> ColPatterns(h)]} :
           <<w, h>> \in (1..MaxWidth) \X Heights}

\* the characters a caller uses for an off cell
OffChars == {".", " "}
CellChar(b, off) == IF b THEN Fill ELSE off

\* the rows of characters of a grid (letter_forms.lines() of the tests)
CharRows(g, off) ==
  [y \in 1..Len(g) |-> [x \in 1..Len(g[y]) |-> CellChar(g[y][x], off)]]

RECURSIVE Concat(_)
Concat(rows) == IF rows = <<>> THEN <<>> ELSE Head(rows) \o Concat(Tail(rows))

\* the rows joined by line breaks, with or without one after the last row
GridText(g, off, nl) ==
  LET t == Flatten(CharRows(g, off))
  IN IF nl THEN t ELSE Slice(t, 1, Len(t) - 1)

Image(form, data, width) == [form |-> form, data |-> data, width |-> width]

\* the five ways the tests hand a grid to ocr
Render(form, g, off, nl) ==
  CASE form = "str" -> Image("str", GridText(g, off, nl), 0)
    [] form = "flat_bool" -> Image("flat_bool", Concat(g), Len(g[1]))
    [] form = "flat_char" -> Image("flat_char", Concat(CharRows(g, off)), Len(g[1]))
    [] form = "rows_bool" -> Image("rows_bool", g, 0)
    [] form = "rows_char" -> Image("rows_char", CharRows(g, off), 0)

SeqsUpTo(S, n) == UNION {[1..k -> S] : k \in 0..n}

\* any short text, and any short flat sequence with any width
RawTexts == SeqsUpTo({Fill, ".", " ", NL}, MaxRawLen)
RawBools == SeqsUpTo(BOOLEAN, MaxFlatLen)
RawChars == SeqsUpTo({Fill, "."}, MaxFlatLen)
RawWidths == 0..MaxFlatWidth

\* the grid an image was rendered from, as the caller knows it
Source(g, off, nl) == [known |-> TRUE, rows |-> g, off |-> off, nl |-> nl]
NoSource == [known |-> FALSE, rows |-> <<>>, off |-> ".", nl |-> FALSE]

\* ------------------------------------------------------- the font assets
File(letters, cols, h) ==
  [ok |-> TRUE,
   text |-> letters \o <<NL, NL>> \o GridText(GridFromCols(cols, h), ".", TRUE)]
Unreadable == [ok |-> FALSE, text |-> <<>>]

\* a 6-row sheet of two glyphs, and the same rendering with three letters
Forms6 == <<Full(6), Blank(6), Full(6), Full(6), Blank(6), Blank(6)>>
Sheet6 == File(<<"I", "H">>, Forms6, 6)
Sheet6Long == File(<<"I", "H", "J">>, Forms6, 6)

\* a 10-row sheet of two glyphs, and one whose only glyph has the
\* identifier of the first glyph of the 6-row sheet
Forms10 ==
  <<Full(10), Blank(10), Full(10), Full(10)>> \o [x \in 1..6 |-> Blank(10)]
Low6 == [y \in 1..10 |-> y > 4]
Sheet10 == File(<<"I", "H">>, Forms10, 10)
Sheet10Same == File(<<"X">>, <<Low6>> \o [x \in 1..9 |-> Blank(10)], 10)

\* res/font6.txt and res/font10.txt as the process finds them
FontPairs ==
  {<<Sheet6, Sheet10>>, <<Sheet6Long, Sheet10>>, <<Sheet6, Sheet10Same>>,
   <<Sheet6, Unreadable>>}

\* ---------------------------------------------------------------- state
VARIABLES
  font6,       \* the file res/font6.txt
  font10,      \* the file res/font10.txt
  phase,       \* "idle", or "returned" after a call of ocr
  image,       \* the argument of the last call
  source,      \* the grid the caller rendered it from, if any
  result,      \* what the call came to: Some(s), None or a panic
  ids,         \* the call's local ids
  letter_map,  \* the call's local letter_map
  loads        \* how many times the process has built the catalogue

vars == <<font6, font10, phase, image, source, result, ids, letter_map, loads>>

NoImage == Image("none", <<>>, 0)
Pending == [tag |-> "Pending", s |-> <<>>]

Init ==
  /\ \E fonts \in FontPairs : font6 = fonts[1] /\ font10 = fonts[2]
  /\ phase = "idle"
  /\ image = NoImage
  /\ source = NoSource
  /\ result = Pending
  /\ ids = NoIds
  /\ letter_map = NoMap
  /\ loads = 0

\* one call of ocr, start to end
Call(img, src) ==
  /\ \E o \in {ocr(img, font6, font10)} :
       /\ result' = o.result
       /\ ids' = o.ids
       /\ letter_map' = o.letter_map
       /\ loads' = loads + o.loads
  /\ image' = img
  /\ source' = src
  /\ phase' = "returned"
  /\ UNCHANGED <<font6, font10>>

\* the process is between two calls and has calls left to make
CanCall == phase = "idle" /\ loads < MaxCalls

\* a call with a grid of characters in the form `form`
CallChars(form) ==
  \E g \in Grids : \E off \in OffChars :
    Call(Render(form, g, off, TRUE), Source(g, off, TRUE))

\* a call with a grid of bools in the form `form`
CallBools(form) ==
  \E g \in Grids : Call(Render(form, g, ".", TRUE), Source(g, ".", TRUE))

ocr_str ==
  /\ CanCall
  /\ \/ \E g \in Grids : \E off \in OffChars : \E nl \in BOOLEAN :
          Call(Render("str", g, off, nl), Source(g, off, nl))
     \/ \E t \in RawTexts : Call(Image("str", t, 0), NoSource)

ocr_flat_bool ==
  /\ CanCall
  /\ \/ CallBools("flat_bool")
     \/ \E b \in RawBools : \E w \in RawWidths :
          Call(Image("flat_bool", b, w), NoSource)

ocr_flat_char ==
  /\ CanCall
  /\ \/ CallChars("flat_char")
     \/ \E c \in RawChars : \E w \in RawWidths :
          Call(Image("flat_char", c, w), NoSource)

ocr_rows_bool == CanCall /\ CallBools("rows_bool")

ocr_rows_char == CanCall /\ CallChars("rows_char")

\* the caller takes the result; the locals of the call are gone
Return ==
  /\ phase = "returned"
  /\ phase' = "idle"
  /\ image' = NoImage
  /\ source' = NoSource
  /\ result' = Pending
  /\ ids' = NoIds
  /\ letter_map' = NoMap
  /\ UNCHANGED <<font6, font10, loads>>

Next ==
  \/ ocr_flat_bool
  \/ ocr_flat_char
  \/ ocr_rows_bool
  \/ ocr_rows_char
  \/ ocr_str
  \/ Return

Spec == Init /\ [][Next]_vars

\* ---------------------------------------------------------------- claims
Returned == phase = "returned"
Forms == {"str", "flat_bool", "flat_char", "rows_bool", "rows_char"}
FlatForms == {"flat_bool", "flat_char"}

\* the image of the last call is a rectangular grid of width >= 1 and
\* height >= 1 in one of the five forms
WellFormed == Returned /\ source.known
GridWidth == Len(source.rows[1])
GridHeight == Len(source.rows)

\* both font assets can be read
FontsLoadable == font6.ok /\ font10.ok

Some(s) == [tag |-> "Some", s |-> s]

\* C1: ocr never panics on a well-formed grid of any supported form, of any
\* width >= 1 and height >= 1, when both font assets are loadable: the call
\* returns Some or None.
ClaimC1 ==
  (WellFormed /\ FontsLoadable) => result.tag \in {"Some", "None"}

\* C2: the five representations of one logical grid decode to the same
\* Option<String>, whatever character other than '#' marks an off cell in the
\* char-based forms and whether or not the text ends with a line break.
ClaimC2 ==
  WellFormed =>
    \A form \in Forms : \A off \in OffChars : \A nl \in BOOLEAN :
      ocr(Render(form, source.rows, off, nl), font6, font10).result = result

AllBlank == \A y \in 1..GridHeight : \A x \in 1..GridWidth : ~source.rows[y][x]

\* C3: ocr on an all-blank grid of width >= 1 and height >= 2 returns
\* Some(""), in any form and whatever character marks a blank cell.
ClaimC3 ==
  (WellFormed /\ FontsLoadable /\ GridHeight >= 2 /\ AllBlank)
    => result = Some(<<>>)

\* the image is a text without a line break: no row width can be determined
NoLineBreak ==
  image.form = "str" /\ \A i \in 1..Len(image.data) : image.data[i] # NL
\* the row width of the image is known: a grid given with its width or as
\* rows, or a text of two rows or more (a line break ends the first row)
WidthKnown == WellFormed /\ (image.form # "str" \/ GridHeight >= 2)

\* C4: ocr returns None exactly for structurally malformed input: a text
\* with no line break yields None, and no input whose row width is known
\* yields None (a one-row grid given as a flat sequence with its width or as
\* a single row included).
ClaimC4 ==
  Returned =>
    /\ NoLineBreak => result.tag = "None"
    /\ WidthKnown => result.tag # "None"

\* the columns of the grid of the last call, left to right
GridCol(x) == [y \in 1..GridHeight |-> source.rows[y][x]]
IsBlankCol(x) == \A y \in 1..GridHeight : ~source.rows[y][x]
\* the first column of the run of non-blank columns that holds column x
RunStart(x) ==
  CHOOSE a \in 1..x :
    /\ \A k \in a..x : ~IsBlankCol(k)
    /\ (a = 1 \/ IsBlankCol(a - 1))
\* the last column of that run
RunEnd(x) ==
  CHOOSE b \in x..GridWidth :
    /\ \A k \in x..b : ~IsBlankCol(k)
    /\ (b = GridWidth \/ IsBlankCol(b + 1))
\* column x opens an identifier: it opens a run or, at height 6, follows
\* five columns of one identifier
Opens(x) ==
  /\ ~IsBlankCol(x)
  /\ \/ RunStart(x) = x
     \/ GridHeight = 6 /\ (x - RunStart(x)) % 5 = 0
\* the last column of the identifier a column opens
Closes(x) ==
  IF GridHeight = 6 THEN Min(x + 4, RunEnd(x)) ELSE RunEnd(x)
\* the k-th smallest member of a set of numbers
Nth(S, k) == CHOOSE x \in S : Cardinality({y \in S : y < x}) = k - 1
\* the binary numeral of the cells of the columns a..b, top to bottom
RECURSIVE ColsBits(_, _)
ColsBits(a, b) ==
  IF a > b THEN <<>>
  ELSE [y \in 1..GridHeight |-> IF source.rows[y][a] THEN 1 ELSE 0]
         \o ColsBits(a + 1, b)
\* the identifiers the closing rule asks for, left to right
ExpectedIds ==
  LET opens == {x \in 1..GridWidth : Opens(x)}
  IN [k \in 1..Cardinality(opens) |->
        StripZeros(ColsBits(Nth(opens, k), Closes(Nth(opens, k))))]

\* C5: in a grid of height 6 a run of n contiguous non-blank columns gives
\* ceil(n / 5) identifiers of at most 5 columns each, left to right; in a
\* grid of any other height the run gives exactly one identifier.
ClaimC5 ==
  (WellFormed /\ source.off = "." /\ GridHeight >= 2
     /\ \E x \in 1..GridWidth : ~IsBlankCol(x))
    => ids = [tag |-> "Some", ids |-> ExpectedIds]

\* the closing rule on the grids map_to_id does not panic on
ClosingRuleWhereScanned ==
  (WellFormed /\ source.off = "." /\ ids.tag = "Some") => ids.ids = ExpectedIds

\* C6: whenever ocr returns Some(s), s has one character per identifier of
\* map_to_id, in the same order: the catalogue's entry for the identifier if
\* there is one, '?' otherwise.
TheoremC6 ==
  (Returned /\ result.tag = "Some") =>
    /\ ids.tag = "Some"
    /\ letter_map.tag = "Ok"
    /\ Len(result.s) = Len(ids.ids)
    /\ \A i \in 1..Len(ids.ids) :
         result.s[i] = IF ids.ids[i] \in DOMAIN letter_map.map
                          THEN letter_map.map[ids.ids[i]]
                          ELSE Sentinel

\* a decoded string with a '?' for an unmatched identifier and, after it, the
\* letter of a matched one
WitnessC6 ==
  /\ Returned
  /\ result.tag = "Some"
  /\ \E i, j \in 1..Len(result.s) :
       /\ i < j
       /\ ids.ids[i] \notin DOMAIN letter_map.map
       /\ result.s[i] = Sentinel
       /\ ids.ids[j] \in DOMAIN letter_map.map
       /\ result.s[j] # Sentinel

\* the letters and the identifiers of a reference sheet get_letter_map reads
SheetLetters(file) == split_once(file.text).before
SheetIds(file) == map_to_id(trim(split_once(file.text).after)).ids
\* the catalogue of the last call was built: get_letter_map accepted the sheets
Accepted == Returned /\ letter_map.tag = "Ok"

SheetPairs(file) ==
  {<<SheetIds(file)[i], SheetLetters(file)[i]>> :
     i \in 1..Min(Len(SheetIds(file)), Len(SheetLetters(file)))}
\* no identifier is paired with two different letters, in one sheet or
\* across the two
NoClash ==
  \A p, q \in SheetPairs(font6) \cup SheetPairs(font10) :
    p[1] = q[1] => p[2] = q[2]

Inconsistent(file) ==
  /\ file.ok
  /\ split_once(file.text).tag = "Some"
  /\ map_to_id(trim(split_once(file.text).after)).tag = "Some"
  /\ Len(SheetIds(file)) # Len(SheetLetters(file))

\* C8: when a reference sheet is internally inconsistent, catalogue
\* construction aborts: no call builds a map from it.
ClaimC8 ==
  (Returned /\ letter_map.tag # "Unreached"
     /\ (Inconsistent(font6) \/ Inconsistent(font10)))
    => (letter_map.tag = "Panic" /\ result.tag = "Panic")

\* C9: over any sequence of ocr calls the catalogue is built once: the two
\* assets are read and parsed exactly once, however many calls decode.
ClaimC9 ==
  FontsLoadable =>
    /\ loads <= 1
    /\ (Returned /\ result.tag = "Some") => loads = 1

\* a flat image whose length is not a multiple of its width
Indivisible ==
  /\ image.form \in FlatForms
  /\ IF image.width = 0 THEN TRUE ELSE Len(image.data) % image.width # 0

\* C10: ocr of a flat sequence whose length is not evenly divisible by the
\* width (width 0 included) returns None: it neither panics nor decodes the
\* complete rows.
ClaimC10 == (Returned /\ Indivisible) => result.tag = "None"

====
